---- MODULE Spec2Model ----
(***************************************************************************)
(* Verification model of easel's esl_neon.h inline utilities and of the    *)
(* esl-translate six-frame ORF scanner documented in the esl-translate     *)
(* manual page.                                                            *)
(*                                                                         *)
(* A 128-bit NEON register (the unions esl_neon_128i_t / esl_neon_128f_t)  *)
(* is modelled by its 16 bytes in memory order, so that every view of the  *)
(* union (u8x16, u16x8, u32x4, u64x2) is a reading of the same bytes.      *)
(***************************************************************************)
EXTENDS Integers, Sequences, FiniteSets

(***************************************************************************)
(* Bounds of the model.                                                    *)
(***************************************************************************)
\* float lane values are drawn from 0..MaxFloat
MaxFloat == 1
\* number of lanes of the u8 input vector that are set to a chosen value
MaxSet == 2
\* number of blocks a generated input sequence is made of
MaxBlocks == 3
\* largest window the scan driver loads, in nucleotides
MaxWindow == 5

VARIABLES
  \* ---- esl_neon_any_gt_float ----
  fa,         \* argument a.f32x4, lanes 0..3
  fb,         \* argument b.f32x4, lanes 0..3
  bigEndian,  \* byte order of the build
  mask,       \* local mask, 16 bytes
  l0,         \* local int l0, 4 bytes, least significant first
  l1,         \* local int l1
  maskbits,   \* local int maskbits
  anyret,     \* returned value
  npc,        \* position in esl_neon_any_gt_float
  \* ---- esl_neon_hmax_u8 ----
  va0,        \* the argument as passed, 16 bytes
  va,         \* local (modified) a
  tempv,      \* local tempv
  nset,       \* number of lanes set while building the argument
  hret,       \* returned value
  hpc,        \* position in esl_neon_hmax_u8
  \* ---- esl-translate ----
  seq,        \* Sequence: the nucleotides of the source sequence, 1..L
  policy,     \* StartPolicy
  minlen,     \* minimum ORF length in amino acids (option -l)
  strand,     \* strand selection
  rewindable, \* whether the sequence source can be repositioned
  spc,        \* position of the scan driver
  error,      \* failure reported by the run
  bufferEnd,  \* Window.bufferEnd of the window last loaded, in the coordinates
              \* of the strand's view (0: none loaded yet)
  nextpos,    \* first codon position not yet consumed in the strand's view
  work,       \* FrameState 1..6, the Closed records and the discarded ORFs
  pending,    \* ordered records not yet handed to the writer
  output      \* the records written, numbered

neonVars == <<fa, fb, bigEndian, mask, l0, l1, maskbits, anyret, npc>>
hmaxVars == <<va0, va, tempv, nset, hret, hpc>>
scanVars == <<seq, policy, minlen, strand, rewindable, spc, error,
              bufferEnd, nextpos, work, pending, output>>
vars == <<neonVars, hmaxVars, scanVars>>

Lanes4 == 0..3
Bytes16 == 0..15
FloatVals == 0..MaxFloat
U8Vals == {0, 1, 255}
ZeroReg == [k \in Bytes16 |-> 0]
ZeroInt == <<0, 0, 0, 0>>

\* FrameState of a frame with no ORF in progress
IdleFrame == [active |-> FALSE, openStart |-> 0, accumulated |-> <<>>]

\* the six FrameStates, the Closed records in scan order, the discarded ORFs
EmptyWork == [frames |-> [f \in 1..6 |-> IdleFrame], closed |-> <<>>, discarded |-> <<>>]

\* the state of each component while another one is being checked
ScanIdle ==
  /\ seq = <<>> /\ policy = "None" /\ minlen = 1 /\ strand = "WatsonOnly"
  /\ rewindable = TRUE /\ spc = "idle" /\ error = "none"
  /\ bufferEnd = 0 /\ nextpos = 1
  /\ work = EmptyWork /\ pending = <<>> /\ output = <<>>

NeonIdle ==
  /\ fa = [z \in Lanes4 |-> 0] /\ fb = [z \in Lanes4 |-> 0]
  /\ bigEndian = FALSE
  /\ mask = ZeroReg /\ l0 = ZeroInt /\ l1 = ZeroInt /\ maskbits = ZeroInt
  /\ anyret = FALSE /\ npc = "idle"

HmaxIdle ==
  /\ va0 = ZeroReg /\ va = ZeroReg /\ tempv = ZeroReg
  /\ nset = 0 /\ hret = 0 /\ hpc = "idle"

(***************************************************************************)
(* NEON intrinsics used by the header.                                     *)
(***************************************************************************)
\* vcgtq_f32: lane z of the u32x4 result is all ones if a[z] > b[z], else 0
vcgtq_f32(a, b) == [k \in Bytes16 |-> IF a[k \div 4] > b[k \div 4] THEN 255 ELSE 0]

\* vgetq_lane_u64 on the u64x2 view: the value of doubleword j, as 8 bytes
\* least significant first
vgetq_lane_u64(reg, j, be) ==
  [i \in 1..8 |-> IF be THEN reg[8 * j + 8 - i] ELSE reg[8 * j + i - 1]]

\* the conversion of the uint64_t lane to the 32-bit int it is assigned to
\* (int l0, l1) keeps the low 32 bits, as every ARM compiler implements it
IntFromU64(v) == [i \in 1..4 |-> v[i]]

RECURSIVE BitOr(_, _)
BitOr(x, y) ==
  IF x = 0 THEN y
  ELSE IF y = 0 THEN x
  ELSE (IF x % 2 = 1 \/ y % 2 = 1 THEN 1 ELSE 0) + 2 * BitOr(x \div 2, y \div 2)

\* l0 | l1 on 32-bit ints
IntOr(x, y) == [i \in 1..4 |-> BitOr(x[i], y[i])]

IntNonZero(x) == \E i \in 1..4 : x[i] # 0

\* vextq_u32(a, b, n): u32 lane i of the result is lane i+n of a:b
vextq_u32(a, b, n) ==
  [k \in Bytes16 |-> IF k + 4 * n < 16 THEN a[k + 4 * n] ELSE b[k + 4 * n - 16]]

\* vmaxq_u8: bytewise unsigned maximum
vmaxq_u8(a, b) == [k \in Bytes16 |-> IF a[k] >= b[k] THEN a[k] ELSE b[k]]

\* vrev64q_u16: reverses the four u16 elements of each doubleword
vrev64q_u16(a) ==
  [k \in Bytes16 |->
     LET e == k \div 2
         src == (e \div 4) * 4 + (3 - (e % 4))
     IN  a[2 * src + (k % 2)]]

\* mutant: the last step reverses u16 elements again instead of bytes
vrev64q_u8_as_u16(a) == vrev64q_u16(a)

\* vrev64q_u8: reverses the eight bytes of each doubleword
vrev64q_u8(a) == [k \in Bytes16 |-> a[(k \div 8) * 8 + (7 - (k % 8))]]

vgetq_lane_u8(a, lane) == a[lane]

(***************************************************************************)
(* esl_neon_any_gt_float(a, b), one action per statement.                  *)
(***************************************************************************)
AnyGtInit ==
  /\ fa \in [Lanes4 -> FloatVals]
  /\ fb \in [Lanes4 -> FloatVals]
  /\ bigEndian \in BOOLEAN
  /\ mask = ZeroReg /\ l0 = ZeroInt /\ l1 = ZeroInt /\ maskbits = ZeroInt
  /\ anyret = FALSE
  /\ npc = "cmp"
  /\ HmaxIdle
  /\ ScanIdle

AnyGtCompare ==
  /\ npc = "cmp"
  /\ mask' = vcgtq_f32(fa, fb)
  /\ npc' = "lane0"
  /\ UNCHANGED <<fa, fb, bigEndian, l0, l1, maskbits, anyret, hmaxVars, scanVars>>

AnyGtLane0 ==
  /\ npc = "lane0"
  /\ l0' = IntFromU64(vgetq_lane_u64(mask, 0, bigEndian))
  /\ npc' = "lane1"
  /\ UNCHANGED <<fa, fb, bigEndian, mask, l1, maskbits, anyret, hmaxVars, scanVars>>

AnyGtLane1 ==
  /\ npc = "lane1"
  /\ l1' = IntFromU64(vgetq_lane_u64(mask, 1, bigEndian))
  /\ npc' = "or"
  /\ UNCHANGED <<fa, fb, bigEndian, mask, l0, maskbits, anyret, hmaxVars, scanVars>>

AnyGtOr ==
  /\ npc = "or"
  /\ maskbits' = IntOr(l0, l1)
  /\ npc' = "ret"
  /\ UNCHANGED <<fa, fb, bigEndian, mask, l0, l1, anyret, hmaxVars, scanVars>>

AnyGtReturn ==
  /\ npc = "ret"
  /\ anyret' = IntNonZero(maskbits)
  /\ npc' = "done"
  /\ UNCHANGED <<fa, fb, bigEndian, mask, l0, l1, maskbits, hmaxVars, scanVars>>

AnyGtNext ==
  \/ AnyGtCompare
  \/ AnyGtLane0
  \/ AnyGtLane1
  \/ AnyGtOr
  \/ AnyGtReturn

SpecAnyGt == AnyGtInit /\ [][AnyGtNext]_vars

(***************************************************************************)
(* esl_neon_hmax_u8(a).  The argument is built by HmaxSetLane from a       *)
(* uniform vector; the function body then runs one action per             *)
(* rotate/reverse-and-max step.                                            *)
(***************************************************************************)
HmaxInit ==
  /\ \E base \in U8Vals : va0 = [k \in Bytes16 |-> base]
  /\ va = ZeroReg /\ tempv = ZeroReg
  /\ nset = 0 /\ hret = 0
  /\ hpc = "arg"
  /\ NeonIdle
  /\ ScanIdle

HmaxSetLane ==
  /\ hpc = "arg"
  /\ nset < MaxSet
  /\ \E z \in Bytes16, v \in U8Vals :
       /\ va0[z] # v
       /\ va0' = [va0 EXCEPT ![z] = v]
  /\ nset' = nset + 1
  /\ UNCHANGED <<va, tempv, hret, hpc, neonVars, scanVars>>

HmaxCall ==
  /\ hpc = "arg"
  /\ va' = va0
  /\ hpc' = "ext2"
  /\ UNCHANGED <<va0, tempv, nset, hret, neonVars, scanVars>>

HmaxExt2 ==
  /\ hpc = "ext2"
  /\ tempv' = vextq_u32(va, va, 2)
  /\ va' = vmaxq_u8(va, tempv')
  /\ hpc' = "ext1"
  /\ UNCHANGED <<va0, nset, hret, neonVars, scanVars>>

HmaxExt1 ==
  /\ hpc = "ext1"
  /\ tempv' = vextq_u32(va, va, 1)
  /\ va' = vmaxq_u8(va, tempv')
  /\ hpc' = "rev16"
  /\ UNCHANGED <<va0, nset, hret, neonVars, scanVars>>

HmaxRev16 ==
  /\ hpc = "rev16"
  /\ tempv' = vrev64q_u16(va)
  /\ va' = vmaxq_u8(va, tempv')
  /\ hpc' = "rev8"
  /\ UNCHANGED <<va0, nset, hret, neonVars, scanVars>>

HmaxRev8 ==
  /\ hpc = "rev8"
  /\ tempv' = vrev64q_u8(va)
  /\ va' = vmaxq_u8(va, tempv')
  /\ hpc' = "ret"
  /\ UNCHANGED <<va0, nset, hret, neonVars, scanVars>>

HmaxReturn ==
  /\ hpc = "ret"
  /\ hret' = vgetq_lane_u8(va, 15)
  /\ hpc' = "done"
  /\ UNCHANGED <<va0, va, tempv, nset, neonVars, scanVars>>

HmaxNext ==
  \/ HmaxSetLane
  \/ HmaxCall
  \/ HmaxExt2
  \/ HmaxExt1
  \/ HmaxRev16
  \/ HmaxRev8
  \/ HmaxReturn

SpecHmax == HmaxInit /\ [][HmaxNext]_vars

(***************************************************************************)
(* esl-translate: genetic code, window buffer, frame state machines, scan  *)
(* driver and ORF emitter.                                                 *)
(***************************************************************************)
Min(x, y) == IF x <= y THEN x ELSE y
Max(x, y) == IF x >= y THEN x ELSE y

\* nucleotide blocks the generated source sequences are made of
Blocks ==
  { <<"A", "T", "G">>, <<"C", "A", "T">>, <<"T", "A", "G">>,
    <<"C", "T", "A">>, <<"G">> }

RECURSIVE SeqsUpTo(_)
SeqsUpTo(n) ==
  IF n = 0 THEN {<<>>}
  ELSE LET S == SeqsUpTo(n - 1) IN S \cup {s \o b : s \in S, b \in Blocks}

\* ATGAAATAG, and longer sequences with ORFs on both strands
Scenarios ==
  { <<"A","T","G","A","A","A","T","A","G">>,
    <<"C","T","A","A","T","G","C","A","T","T","A","G">>,
    <<"A","T","G","T","A","G","A","T","G","C","A","T","T","A","G">>,
    <<"G","C","T","A","C","A","T","C","T","G","C","A","T","T","A","G","A","T","G">> }

Inputs == SeqsUpTo(MaxBlocks) \cup Scenarios

StartPolicies == {"None", "RequireAUG", "RequireAnyInitiator"}
StrandSelections == {"Both", "WatsonOnly", "CrickOnly"}
MinLens == {1, 2}

\* Window.overlapSize: nucleotides of the previous window read again
overlapSize == 2
WindowSizes == (overlapSize + 1)..MaxWindow

\* ---- Genetic Code Table (NCBI transl_table 1, codons in TCAG order) ----
NucIndex(n) == CASE n = "T" -> 0 [] n = "C" -> 1 [] n = "A" -> 2 [] n = "G" -> 3

StandardCode ==
  << "F","F","L","L", "S","S","S","S", "Y","Y","*","*", "C","C","*","W",
     "L","L","L","L", "P","P","P","P", "H","H","Q","Q", "R","R","R","R",
     "I","I","I","M", "T","T","T","T", "N","N","K","K", "S","S","R","R",
     "V","V","V","V", "A","A","A","A", "D","D","E","E", "G","G","G","G" >>

\* translate(codon): the amino acid, or "*" for a stop codon
Translate(c) ==
  StandardCode[16 * NucIndex(c[1]) + 4 * NucIndex(c[2]) + NucIndex(c[3]) + 1]

IsStop(c) == Translate(c) = "*"

\* the initiator set of the standard code: AUG, CUG, UUG
Initiators == { <<"A","T","G">>, <<"C","T","G">>, <<"T","T","G">> }
IsInitiator(c) == c \in Initiators

\* mutant: the start policy is ignored
CanStartAnywhere(pol, c) == TRUE

\* whether codon c may open an ORF in an idle frame
CanStart(pol, c) ==
  CASE pol = "None" -> TRUE
    [] pol = "RequireAUG" -> c = <<"A","T","G">>
    [] pol = "RequireAnyInitiator" -> IsInitiator(c)

\* mutant: the initiator keeps its elongator translation
StartResidueNatural(pol, c) == Translate(c)

\* the residue pushed for the codon that opens an ORF
StartResidue(pol, c) == IF pol = "None" THEN Translate(c) ELSE "M"

\* mutant: only ORFs longer than the minimum are reported
MinLenStrict(len, min) == len > min

\* whether a closed ORF of len amino acids is reported
MinLenOK(len, min) == len >= min

\* ---- Window Buffer: forward and reverse-complement views ----
Complement(n) == CASE n = "A" -> "T" [] n = "T" -> "A" [] n = "C" -> "G" [] n = "G" -> "C"

\* symbol k (1-based) of the view of strand dir of sequence s
SymbolAt(s, dir, k) == IF dir = "top" THEN s[k] ELSE Complement(s[Len(s) - k + 1])

CodonAt(s, dir, p) == <<SymbolAt(s, dir, p), SymbolAt(s, dir, p + 1), SymbolAt(s, dir, p + 2)>>

\* mutant: the reverse view is mapped as if positions were 0-based
TopCoordZeroBased(dir, L, k) == IF dir = "top" THEN k ELSE L - k

\* the top-strand coordinate of view position k
TopCoord(dir, L, k) == IF dir = "top" THEN k ELSE L - k + 1

\* the frame a codon starting at view position p belongs to
FrameOf(dir, p) == (IF dir = "top" THEN 1 ELSE 4) + ((p - 1) % 3)

StrandFrames(dir) == IF dir = "top" THEN 1..3 ELSE 4..6

\* mutant: consecutive windows do not overlap
NextWindowStartNoOverlap(we) == we + 1

\* where the next window starts, given the end of the current one
NextWindowStart(we) == we - overlapSize + 1

\* ---- Frame State Machine ----
OrfRecord(dir, L, f, first, last, acc) ==
  [ startCoord |-> TopCoord(dir, L, first),
    endCoord |-> TopCoord(dir, L, last),
    frameIndex |-> f,
    aminoAcidLength |-> Len(acc),
    residues |-> acc ]

\* rule 2: a stop codon at view position p closes the ORF of frame f
CloseOrf(w, s, dir, f, p, min) ==
  LET fr == w.frames[f]
      rec == OrfRecord(dir, Len(s), f, fr.openStart, p - 1, fr.accumulated)
  IN  IF MinLenOK(Len(fr.accumulated), min)
      THEN [w EXCEPT !.frames[f] = IdleFrame, !.closed = Append(@, rec)]
      ELSE [w EXCEPT !.frames[f] = IdleFrame,
                     !.discarded = Append(@, [orf |-> rec, why |-> "short"])]

\* mutant: an ORF open at the end of the sequence is reported like a closed one
EndOpenOrfEmit(w, s, dir, f, min) ==
  LET fr == w.frames[f]
      rec == OrfRecord(dir, Len(s), f, fr.openStart,
                       fr.openStart + 3 * Len(fr.accumulated) - 1, fr.accumulated)
  IN  IF MinLenOK(Len(fr.accumulated), min)
      THEN [w EXCEPT !.frames[f] = IdleFrame, !.closed = Append(@, rec)]
      ELSE [w EXCEPT !.frames[f] = IdleFrame,
                     !.discarded = Append(@, [orf |-> rec, why |-> "unclosed"])]

\* rule 4: the sequence ended while frame f was open; the ORF is discarded
EndOpenOrf(w, s, dir, f, min) ==
  LET fr == w.frames[f]
      rec == OrfRecord(dir, Len(s), f, fr.openStart,
                       fr.openStart + 3 * Len(fr.accumulated) - 1, fr.accumulated)
  IN  [w EXCEPT !.frames[f] = IdleFrame,
                !.discarded = Append(@, [orf |-> rec, why |-> "unclosed"])]

\* one codon, at view position p, consumed by its frame (rules 1, 2, 3, 5).
\* A stop codon read by an idle frame opens nothing: the frame stays idle.
StepCodon(w, s, dir, p, pol, min) ==
  LET f == FrameOf(dir, p)
      c == CodonAt(s, dir, p)
      fr == w.frames[f]
  IN  IF fr.active
      THEN IF IsStop(c)
           THEN CloseOrf(w, s, dir, f, p, min)
           ELSE [w EXCEPT !.frames[f].accumulated = Append(@, Translate(c))]
      ELSE IF ~IsStop(c) /\ CanStart(pol, c)
           THEN [w EXCEPT !.frames[f] =
                   [active |-> TRUE, openStart |-> p,
                    accumulated |-> <<StartResidue(pol, c)>>]]
           ELSE w

\* the codons starting at view positions p..last, in scan order
RECURSIVE ScanPositions(_, _, _, _, _, _, _)
ScanPositions(w, s, dir, p, last, pol, min) ==
  IF p > last THEN w
  ELSE ScanPositions(StepCodon(w, s, dir, p, pol, min), s, dir, p + 1, last, pol, min)

RECURSIVE EndFrames(_, _, _, _, _)
EndFrames(w, s, dir, fs, min) ==
  IF fs = {} THEN w
  ELSE LET f == CHOOSE x \in fs : \A y \in fs : x <= y
           w2 == IF w.frames[f].active THEN EndOpenOrf(w, s, dir, f, min) ELSE w
       IN  EndFrames(w2, s, dir, fs \ {f}, min)

\* ---- ORF Emitter / Orderer ----
OrfKey(o) == Min(o.startCoord, o.endCoord)
IsForward(o) == o.frameIndex <= 3

\* a precedes b in the emission order
OrfLess(a, b) ==
  \/ OrfKey(a) < OrfKey(b)
  \/ OrfKey(a) = OrfKey(b) /\ IsForward(a) /\ ~IsForward(b)

RECURSIVE InsertOrf(_, _)
InsertOrf(o, sorted) ==
  IF sorted = <<>> THEN <<o>>
  ELSE IF OrfLess(o, Head(sorted)) THEN <<o>> \o sorted
  ELSE <<Head(sorted)>> \o InsertOrf(o, Tail(sorted))

\* mutant: the records are handed on in scan order
NoSort(rs) == rs

RECURSIVE SortOrfs(_)
SortOrfs(rs) ==
  IF rs = <<>> THEN <<>>
  ELSE InsertOrf(rs[Len(rs)], SortOrfs(SubSeq(rs, 1, Len(rs) - 1)))

Numbered(o, n) ==
  [ number |-> n, startCoord |-> o.startCoord, endCoord |-> o.endCoord,
    frameIndex |-> o.frameIndex, aminoAcidLength |-> o.aminoAcidLength,
    residues |-> o.residues ]

\* ---- Scan Driver ----
\* mutant: only --crick is taken to need a rewindable source
NeedsRewindCrickOnly(sel) == sel = "CrickOnly"

\* bottom-strand scanning repositions the source
NeedsRewind(sel) == sel \in {"Both", "CrickOnly"}

Init ==
  /\ seq \in Inputs
  /\ policy \in StartPolicies
  /\ minlen \in MinLens
  /\ strand \in StrandSelections
  /\ rewindable \in BOOLEAN
  /\ spc = "start" /\ error = "none"
  /\ bufferEnd = 0 /\ nextpos = 1
  /\ work = EmptyWork /\ pending = <<>> /\ output = <<>>
  /\ NeonIdle
  /\ HmaxIdle

\* the capability check made before any sequence is processed
Begin ==
  /\ spc = "start"
  /\ IF NeedsRewind(strand) /\ ~rewindable
     THEN spc' = "failed" /\ error' = "NonRewindableSource"
     ELSE spc' = (IF strand = "CrickOnly" THEN "bottom" ELSE "top") /\ error' = error
  /\ UNCHANGED <<seq, policy, minlen, strand, rewindable, bufferEnd,
                 nextpos, work, pending, output, neonVars, hmaxVars>>

\* load the next window of the strand being scanned and step its frames
ReadWindow ==
  /\ spc \in {"top", "bottom"}
  /\ bufferEnd < Len(seq)
  /\ \E W \in WindowSizes :
       LET ws == IF bufferEnd = 0 THEN 1 ELSE NextWindowStart(bufferEnd)
           we == Min(ws + W - 1, Len(seq))
           first == Max(nextpos, ws)
       IN  /\ we > bufferEnd
           /\ bufferEnd' = we
           /\ work' = ScanPositions(work, seq, spc, first, we - 2, policy, minlen)
           /\ nextpos' = Max(first, we - 1)
  /\ UNCHANGED <<seq, policy, minlen, strand, rewindable, spc, error, pending,
                 output, neonVars, hmaxVars>>

\* the strand's view is exhausted: end its frames, go on to the next strand
EndOfStrand ==
  /\ spc \in {"top", "bottom"}
  /\ bufferEnd >= Len(seq)
  /\ work' = EndFrames(work, seq, spc, StrandFrames(spc), minlen)
  /\ spc' = IF spc = "top" /\ strand = "Both" THEN "bottom" ELSE "sort"
  /\ bufferEnd' = 0 /\ nextpos' = 1
  /\ UNCHANGED <<seq, policy, minlen, strand, rewindable, error, pending, output,
                 neonVars, hmaxVars>>

\* order the Closed records of the sequence
SortClosed ==
  /\ spc = "sort"
  /\ pending' = SortOrfs(work.closed)
  /\ spc' = "write"
  /\ UNCHANGED <<seq, policy, minlen, strand, rewindable, error,
                 bufferEnd, nextpos, work, output, neonVars, hmaxVars>>

\* number the next record and hand it to the writer
WriteRecord ==
  /\ spc = "write"
  /\ pending # <<>>
  /\ output' = Append(output, Numbered(Head(pending), Len(output) + 1))
  /\ pending' = Tail(pending)
  /\ UNCHANGED <<seq, policy, minlen, strand, rewindable, spc, error,
                 bufferEnd, nextpos, work, neonVars, hmaxVars>>

Finish ==
  /\ spc = "write"
  /\ pending = <<>>
  /\ spc' = "done"
  /\ UNCHANGED <<seq, policy, minlen, strand, rewindable, error,
                 bufferEnd, nextpos, work, pending, output, neonVars, hmaxVars>>

Next ==
  \/ Begin
  \/ ReadWindow
  \/ EndOfStrand
  \/ SortClosed
  \/ WriteRecord
  \/ Finish

Spec == Init /\ [][Next]_vars

(***************************************************************************)
(* Claims about esl_neon.h                                                 *)
(***************************************************************************)
AnyLaneGt == \E z \in Lanes4 : fa[z] > fb[z]

\* C8: esl_neon_any_gt_float(a, b) returns TRUE if and only if a[z] > b[z]
\* for at least one of the four lanes z = 0..3, whichever lane that is.
C8_AnyGtIffSomeLane == npc = "done" => (anyret <=> AnyLaneGt)

VecMax(v) == CHOOSE m \in {v[k] : k \in Bytes16} : \A k \in Bytes16 : v[k] <= m

\* C9: esl_neon_hmax_u8(a) returns the maximum of all 16 unsigned 8-bit
\* elements of a; after the four steps every lane holds that maximum, lane
\* 15 included.
C9_HmaxIsMaximum ==
  /\ hpc = "done" => hret = VecMax(va0)
  /\ hpc \in {"ret", "done"} => \A k \in Bytes16 : va[k] = VecMax(va0)

\* C9 witness: the call returned on a vector whose only maximal lane is not
\* lane 15 and whose lanes are not all alike.
C9_Witness ==
  /\ hpc = "done"
  /\ hret = 255
  /\ va0[15] = 0
  /\ Cardinality({k \in Bytes16 : va0[k] = 255}) = 1
  /\ \E k \in Bytes16 : va0[k] = 1

(***************************************************************************)
(* Claims about esl-translate                                              *)
(***************************************************************************)
Abs(x) == IF x >= 0 THEN x ELSE -x
Emitted == {output[i] : i \in 1..Len(output)}
ShortDiscards == {work.discarded[i].orf : i \in {j \in 1..Len(work.discarded) : work.discarded[j].why = "short"}}
UnclosedDiscards == {work.discarded[i].orf : i \in {j \in 1..Len(work.discarded) : work.discarded[j].why = "unclosed"}}
SameOrf(a, b) ==
  a.startCoord = b.startCoord /\ a.endCoord = b.endCoord /\ a.frameIndex = b.frameIndex

\* the nucleotides startCoord..endCoord of s, read 5'->3' on the ORF's strand
OrfNucleotides(s, a, b) ==
  IF a <= b THEN [i \in 1..(b - a + 1) |-> s[a + i - 1]]
  ELSE [i \in 1..(a - b + 1) |-> Complement(s[a - i + 1])]

\* independent translation, codon by codon, with the genetic code table
RECURSIVE TranslateAll(_)
TranslateAll(nts) ==
  IF Len(nts) < 3 THEN <<>>
  ELSE <<Translate(SubSeq(nts, 1, 3))>> \o TranslateAll(SubSeq(nts, 4, Len(nts)))

FirstCodon(s, o) == SubSeq(OrfNucleotides(s, o.startCoord, o.endCoord), 1, 3)

\* the codon that follows the ORF in its own frame is a stop codon
StopFollows(s, o) ==
  IF o.startCoord < o.endCoord
  THEN /\ o.endCoord + 3 <= Len(s)
       /\ IsStop(OrfNucleotides(s, o.endCoord + 1, o.endCoord + 3))
  ELSE /\ o.endCoord - 3 >= 1
       /\ IsStop(OrfNucleotides(s, o.endCoord - 1, o.endCoord - 3))

FrameOffset(f) == ((f - 1) % 3) + 1

CodonsInFrame(s, f) == Max(0, (Len(s) - 2 - FrameOffset(f)) \div 3 + 1)

\* the scan state after frame f has consumed its first k codons
RECURSIVE UnbrokenFrame(_, _, _, _, _, _)
UnbrokenFrame(s, dir, f, k, pol, min) ==
  IF k = 0 THEN EmptyWork
  ELSE StepCodon(UnbrokenFrame(s, dir, f, k - 1, pol, min),
                 s, dir, FrameOffset(f) + 3 * (k - 1), pol, min)

UnbrokenFrameClosed(s, dir, f, pol, min) ==
  EndFrames(UnbrokenFrame(s, dir, f, CodonsInFrame(s, f), pol, min),
            s, dir, {f}, min).closed

UnbrokenStrand(s, dir, pol, min) ==
  LET b == IF dir = "top" THEN 1 ELSE 4
  IN  UnbrokenFrameClosed(s, dir, b, pol, min)
        \o UnbrokenFrameClosed(s, dir, b + 1, pol, min)
        \o UnbrokenFrameClosed(s, dir, b + 2, pol, min)

UnbrokenOutput(s, pol, min, sel) ==
  LET c1 == IF sel \in {"Both", "WatsonOnly"}
            THEN UnbrokenStrand(s, "top", pol, min) ELSE <<>>
      c2 == IF sel \in {"Both", "CrickOnly"}
            THEN UnbrokenStrand(s, "bottom", pol, min) ELSE <<>>
      sorted == SortOrfs(c1 \o c2)
  IN  [i \in 1..Len(sorted) |-> Numbered(sorted[i], i)]

\* C2: scanning through overlapping windows of any sizes, with the frame
\* states carried across window advances, yields the same list of ORF
\* records as scanning the sequence as one unbroken buffer.
C2_WindowingConsistency ==
  spc = "done" => output = UnbrokenOutput(seq, policy, minlen, strand)

\* C2 witness: a finished run on both strands that emitted an ORF which,
\* with its stop codon, is longer than the largest window.
C2_Witness ==
  /\ spc = "done"
  /\ strand = "Both"
  /\ \E o \in Emitted : o.frameIndex <= 3 /\ 3 * o.aminoAcidLength + 3 > MaxWindow
  /\ \E o \in Emitted : o.frameIndex >= 4 /\ 3 * o.aminoAcidLength + 3 > MaxWindow

\* C3: every emitted record has coordinates in 1..L, spanning exactly its
\* codons (the stop codon excluded); start < end exactly for frames 1..3 and
\* start > end exactly for frames 4..6; frame 1 is anchored at nucleotide 1
\* and frame 4 at nucleotide L.
C3_Coordinates ==
  \A o \in Emitted :
    /\ o.startCoord \in 1..Len(seq) /\ o.endCoord \in 1..Len(seq)
    /\ Abs(o.startCoord - o.endCoord) + 1 = 3 * o.aminoAcidLength
    /\ o.aminoAcidLength = Len(o.residues)
    /\ o.frameIndex \in 1..6
    /\ (o.startCoord < o.endCoord) <=> (o.frameIndex \in 1..3)
    /\ (o.startCoord > o.endCoord) <=> (o.frameIndex \in 4..6)
    /\ o.frameIndex \in 1..3 => (o.startCoord - 1) % 3 = o.frameIndex - 1
    /\ o.frameIndex \in 4..6 => (Len(seq) - o.startCoord) % 3 = o.frameIndex - 4
    /\ \A i \in 1..o.aminoAcidLength :
         ~IsStop(SubSeq(OrfNucleotides(seq, o.startCoord, o.endCoord), 3 * i - 2, 3 * i))
    /\ StopFollows(seq, o)

\* C3 witness: records on both strands, one of them in frame 2 or 3 and one
\* in frame 4 of a sequence whose length is not a multiple of 3.
C3_Witness ==
  /\ spc = "done"
  /\ Len(seq) % 3 # 0
  /\ \E o \in Emitted : o.frameIndex \in 2..3
  /\ \E o \in Emitted : o.frameIndex = 4 /\ o.startCoord < Len(seq)

Qualifies(pol, c) ==
  CASE pol = "None" -> TRUE
    [] pol = "RequireAUG" -> c = <<"A","T","G">>
    [] pol = "RequireAnyInitiator" -> c \in {<<"A","T","G">>, <<"C","T","G">>, <<"T","T","G">>}

\* C5: under RequireAUG an ORF opens only at AUG, under RequireAnyInitiator
\* only at an initiator of the code, and its first residue is then
\* Methionine; under None the first residue is the table's translation.
C5_StartPolicy ==
  /\ \A o \in Emitted :
       LET c == FirstCodon(seq, o)
       IN  /\ Qualifies(policy, c)
           /\ policy # "None" => o.residues[1] = "M"
           /\ policy = "None" => o.residues[1] = Translate(c)
  /\ \A f \in 1..6 :
       LET fr == work.frames[f]
           dir == IF f <= 3 THEN "top" ELSE "bottom"
       IN  fr.active =>
             /\ Qualifies(policy, CodonAt(seq, dir, fr.openStart))
             /\ policy # "None" => fr.accumulated[1] = "M"
             /\ FrameOf(dir, fr.openStart) = f

\* C5 witness: under RequireAnyInitiator a top-strand ORF was emitted that
\* opens at CUG, after codons of its frame were skipped.
C5_Witness ==
  /\ spc = "done"
  /\ policy = "RequireAnyInitiator"
  /\ \E o \in Emitted :
       /\ o.frameIndex <= 3 /\ o.startCoord > 3
       /\ FirstCodon(seq, o) = <<"C","T","G">>
       /\ o.residues[1] = "M"

\* C6 as stated: translating the subrange [startCoord, endCoord]
\* independently reproduces the emitted residues exactly, under every start
\* policy.
C6_RoundTripExact ==
  \A o \in Emitted :
    TranslateAll(OrfNucleotides(seq, o.startCoord, o.endCoord)) = o.residues

\* C6 amended: the independent translation reproduces every residue after
\* the first; the first residue is reproduced too under None and
\* RequireAUG, and is Methionine under RequireAnyInitiator.
C6_RoundTripButInitiator ==
  \A o \in Emitted :
    LET t == TranslateAll(OrfNucleotides(seq, o.startCoord, o.endCoord))
    IN  /\ Len(t) = Len(o.residues)
        /\ \A i \in 2..Len(t) : t[i] = o.residues[i]
        /\ o.residues[1] = IF policy = "RequireAnyInitiator" THEN "M" ELSE t[1]

\* C6 witness: an emitted ORF of two or more residues whose initiator
\* codon does not encode Methionine.
C6_Witness ==
  /\ spc = "done"
  /\ \E o \in Emitted :
       /\ o.aminoAcidLength >= 2
       /\ Translate(FirstCodon(seq, o)) = "L"
       /\ o.residues[1] = "M"
       /\ o.residues[2] = "H"

\* C7: bottom-strand scanning on a source that cannot be rewound fails with
\* NonRewindableSource before any ORF record is produced; WatsonOnly scans
\* the same source without this error.
C7_NonRewindable ==
  /\ (~rewindable /\ strand \in {"Both", "CrickOnly"}) =>
       /\ spc \in {"start", "failed"}
       /\ output = <<>> /\ pending = <<>> /\ work = EmptyWork
       /\ spc = "failed" => error = "NonRewindableSource"
  /\ (rewindable \/ strand = "WatsonOnly") => (error = "none" /\ spc # "failed")

\* C7 witness: the run on a sequence that holds ORFs failed.
C7_Witness ==
  /\ spc = "failed"
  /\ error = "NonRewindableSource"
  /\ strand = "Both"
  /\ UnbrokenOutput(seq, policy, minlen, "WatsonOnly") # <<>>

\* C10: an ORF still open at the end of the sequence is never emitted and
\* consumes no number: every emitted record was closed by a stop codon in
\* its own frame; no error is raised; a frame holds at most one open ORF.
C10_UnclosedDiscarded ==
  /\ \A o \in Emitted : StopFollows(seq, o)
  /\ \A i \in 1..Len(work.closed) : StopFollows(seq, work.closed[i])
  /\ \A d \in UnclosedDiscards :
       /\ ~StopFollows(seq, d)
       /\ \A o \in Emitted : ~SameOrf(d, o)
  /\ UnclosedDiscards # {} => error = "none"
  /\ spc \in {"sort", "write", "done"} => \A f \in 1..6 : work.frames[f] = IdleFrame
  /\ \A f \in 1..6 : ~work.frames[f].active => work.frames[f] = IdleFrame

\* C10 witness: a finished run that emitted records and discarded an
\* unclosed ORF at least as long as the minimum.
C10_Witness ==
  /\ spc = "done"
  /\ output # <<>>
  /\ \E d \in UnclosedDiscards : d.aminoAcidLength >= minlen /\ d.aminoAcidLength >= 2

====
